---- MODULE Spec2Model ----
(***************************************************************************)
(* A model of the RESP codec of gallir/radix.improved:                     *)
(*   - resp/resp.go    the Pool, the scalar codecs (SimpleString, Error,   *)
(*                     Int, BulkString, ArrayHeader) and Any.MarshalRESP;  *)
(*   - encoder2.go     the streaming encoder.                              *)
(*                                                                         *)
(* Bytes are their ASCII codes.  Go memory is modelled explicitly: a heap  *)
(* of byte arrays, slices as (array, offset, length, capacity) views into  *)
(* it, and bytes.Buffer as (slice, read offset), so that the aliasing the  *)
(* Pool relies on (scratch tails, the buffer tail handed to sub-encodes)   *)
(* is part of the model and not assumed away.  bytes.Buffer is the one of  *)
(* the current Go standard library (no inline bootstrap array).           *)
(***************************************************************************)
EXTENDS Integers, Sequences, FiniteSets, TLC

VARIABLES
    pool,   \* the shared *Pool: [heap, buf, scratch]
    call,   \* the last Any.MarshalRESP call and what it returned
    wire,   \* the last scalar MarshalRESP call and what it returned
    dec,    \* the last scalar UnmarshalRESP call and what it left behind
    enc     \* the streaming encoder, its sink, and its last Encode call

vars == <<pool, call, wire, dec, enc>>

(***************************************************************************)
(* Bounds of the model.                                                    *)
(***************************************************************************)
\* longest payload of a SimpleString, Error, BulkString or text value
MaxPayload == 2
\* integers range over -MaxInt..MaxInt
MaxInt == 11
\* longest byte string handed to UnmarshalRESP that no MarshalRESP produced
MaxInput == 2
\* bytes.Buffer's first allocation (smallBufferSize, 64 in the Go library),
\* scaled down so that buffers do have to grow
smallBufferSize == 6
\* the longest text, and the most elements of a sequence, given to Any
MaxText == 2
MaxElems == 2
\* the most calls of Any.MarshalRESP in one run
MaxCalls == 2
\* the size of the bufio.Writer's buffer (4096 in bufio, scaled down)
bufioSize == 4
\* the most bytes the sink takes before its writes fail
MaxRoom == 16
\* the most calls of Encode in one run
MaxEncodes == 2

(***************************************************************************)
(* Wire grammar (resp.go:20-39).                                           *)
(***************************************************************************)
delim == <<13, 10>>
simpleStrPrefix == <<43>>
errPrefix == <<45>>
intPrefix == <<58>>
bulkStrPrefix == <<36>>
arrayPrefix == <<42>>
nilBulkString == <<36, 45, 49, 13, 10>>
nilArray == <<42, 45, 49, 13, 10>>
bools == <<(<<48>>), (<<49>>)>>

\* payload bytes the model draws from: 'a', '1', CR, LF
PayloadBytes == {97, 49, 13, 10}
\* bytes of arbitrary inputs: the prefixes, '-', '0', '1', 'a', CR, LF
InputBytes == {36, 43, 58, 45, 48, 49, 97, 13, 10}

\* T and its longest members (length k) extended by one element of S
Extended(T, S, k) == T \cup {Append(s, x) : s \in {t \in T : Len(t) = k}, x \in S}

RECURSIVE SeqsUpTo(_, _)
SeqsUpTo(S, n) == IF n = 0 THEN {<<>>} ELSE Extended(SeqsUpTo(S, n - 1), S, n - 1)

Payloads == SeqsUpTo(PayloadBytes, MaxPayload)
Ints == (-MaxInt)..MaxInt

(***************************************************************************)
(* strconv.AppendInt(dst, i, 10) and strconv.ParseInt(s, 10, 64), on the  *)
(* decimal text.                                                           *)
(***************************************************************************)
RECURSIVE Digits(_)
Digits(n) == IF n < 10 THEN <<48 + n>> ELSE Append(Digits(n \div 10), 48 + (n % 10))

FormatInt(i) == IF i < 0 THEN <<45>> \o Digits(-i) ELSE Digits(i)

RECURSIVE DigitsValue(_)
DigitsValue(s) ==
    IF s = <<>> THEN 0
    ELSE 10 * DigitsValue(SubSeq(s, 1, Len(s) - 1)) + (s[Len(s)] - 48)

\* ParseInt: an optional sign, then one or more decimal digits
ParseInt(s) ==
    LET signed == Len(s) > 0 /\ s[1] \in {43, 45}
        body == IF signed THEN SubSeq(s, 2, Len(s)) ELSE s
        ok == Len(body) > 0 /\ \A i \in 1..Len(body) : body[i] \in 48..57
    IN IF ~ok THEN [err |-> "syntax", n |-> 0]
       ELSE [err |-> "nil",
             n |-> IF signed /\ s[1] = 45 THEN -DigitsValue(body) ELSE DigitsValue(body)]

(***************************************************************************)
(* Go memory: a heap of byte arrays and slices into it.  Arrays 1 and 2   *)
(* hold the package-level nilBulkString and nilArray.                      *)
(***************************************************************************)
Zeros(n) == [i \in 1..n |-> 0]

StaticHeap == <<nilBulkString, nilArray>>

NilSlice == [a |-> 0, o |-> 0, l |-> 0, c |-> 0]
nilBulkStringSlice == [a |-> 1, o |-> 0, l |-> 5, c |-> 5]
nilArraySlice == [a |-> 2, o |-> 0, l |-> 5, c |-> 5]

IsNil(s) == s.a = 0

SliceBytes(h, s) == IF s.l = 0 THEN <<>> ELSE SubSeq(h[s.a], s.o + 1, s.o + s.l)

\* s[n:]
SliceFrom(s, n) == IF IsNil(s) THEN s ELSE [a |-> s.a, o |-> s.o + n, l |-> s.l - n, c |-> s.c - n]

\* s[:0]
SliceEmpty(s) == [s EXCEPT !.l = 0]

\* copy(array a [pos:], data)
HeapPut(h, a, pos, data) ==
    IF data = <<>> THEN h
    ELSE [h EXCEPT ![a] = SubSeq(@, 1, pos) \o data \o SubSeq(@, pos + Len(data) + 1, Len(@))]

\* a new array holding data, with total capacity c, and the slice of its data
NewArray(h, data, c) ==
    [h |-> Append(h, data \o Zeros(c - Len(data))),
     s |-> [a |-> Len(h) + 1, o |-> 0, l |-> Len(data), c |-> c]]

\* the built-in append(s, data...): in place while the capacity lasts, else a
\* new array of at least twice the capacity; appending nothing returns s, so
\* that append(nil, ""...) is nil
GoAppend(h, s, data) ==
    IF data = <<>> THEN [h |-> h, s |-> s]
    ELSE IF s.l + Len(data) <= s.c
         THEN [h |-> HeapPut(h, s.a, s.o + s.l, data), s |-> [s EXCEPT !.l = @ + Len(data)]]
         ELSE LET need == s.l + Len(data)
                  newcap == IF need > 2 * s.c THEN need ELSE 2 * s.c
              IN NewArray(h, SliceBytes(h, s) \o data, newcap)

(***************************************************************************)
(* bytes.Buffer: buf []byte and the read offset off.                       *)
(***************************************************************************)
ZeroBuffer == [s |-> NilSlice, off |-> 0]

BufLen(b) == b.s.l - b.off

\* Buffer.Bytes(): b.buf[b.off:]
BufBytesSlice(b) == SliceFrom(b.s, b.off)

BufBytes(h, b) == SliceBytes(h, BufBytesSlice(b))

BufReset(b) == [s |-> SliceEmpty(b.s), off |-> 0]

\* bytes.NewBuffer(s)
NewBuffer(s) == [s |-> s, off |-> 0]

\* growSlice(rest, n): a new array of capacity c2 holding rest
growSlice(h, rest, c2, total) ==
    [h |-> Append(h, SliceBytes(h, rest) \o Zeros(c2 - rest.l)),
     b |-> [s |-> [a |-> Len(h) + 1, o |-> 0, l |-> total, c |-> c2], off |-> 0],
     i |-> rest.l]

\* Buffer.grow(n) once an empty buffer has been reset: room for n more
\* bytes; i is the index where they go
BufGrowReset(h, b1, n) ==
    LET m == BufLen(b1)
    IN IF n <= b1.s.c - b1.s.l
       THEN [h |-> h, b |-> [b1 EXCEPT !.s.l = @ + n], i |-> b1.s.l]
       ELSE IF IsNil(b1.s) /\ n <= smallBufferSize
       THEN [h |-> Append(h, Zeros(smallBufferSize)),
             b |-> [s |-> [a |-> Len(h) + 1, o |-> 0, l |-> n, c |-> smallBufferSize],
                    off |-> 0],
             i |-> 0]
       ELSE IF n <= (b1.s.c \div 2) - m
       THEN \* slide the unread bytes down to the start of the buffer
            [h |-> HeapPut(h, b1.s.a, b1.s.o, BufBytes(h, b1)),
             b |-> [s |-> [b1.s EXCEPT !.l = m + n], off |-> 0],
             i |-> m]
       ELSE \* growSlice(b.buf[b.off:], b.off+n)
            LET want == m + b1.off + n
                twice == 2 * (b1.s.c - b1.off)
            IN growSlice(h, BufBytesSlice(b1), IF want < twice THEN twice ELSE want, m + n)

\* Buffer.grow(n)
BufGrow(h, b, n) ==
    BufGrowReset(h, IF BufLen(b) = 0 /\ b.off # 0 THEN BufReset(b) ELSE b, n)

\* copy(b.buf[i:], data) after grow
BufPut(g, data) == [h |-> HeapPut(g.h, g.b.s.a, g.b.s.o + g.i, data), b |-> g.b]

\* copy(b.buf[i:], src) after grow, src read from the heap as grow left it
BufPutSlice(g, src) == BufPut(g, SliceBytes(g.h, src))

\* Buffer.Write(data), data held outside the heap (a constant or a string)
BufWrite(h, b, data) == BufPut(BufGrow(h, b, Len(data)), data)

\* Buffer.Write(src), src a slice of the heap, which may alias the buffer:
\* grow first, then copy what src holds at that moment
BufWriteSlice(h, b, src) == BufPutSlice(BufGrow(h, b, src.l), src)

\* Buffer.Next(n): the next n unread bytes, or those left
BufNext(h, b, n) ==
    LET k == IF n > BufLen(b) THEN BufLen(b) ELSE n
    IN [b |-> [b EXCEPT !.off = @ + k],
        data |-> SliceBytes(h, [BufBytesSlice(b) EXCEPT !.l = k])]

\* Buffer.ReadByte() that reports no error on an empty buffer
BufReadByte_NoEOF(h, b) == [b |-> [b EXCEPT !.off = @ + 1], err |-> "nil"]

\* Buffer.ReadByte()
BufReadByte(h, b) ==
    IF BufLen(b) = 0 THEN [b |-> BufReset(b), err |-> "EOF"]
    ELSE [b |-> [b EXCEPT !.off = @ + 1], err |-> "nil"]

(***************************************************************************)
(* Pool (resp.go:96-157).  A machine m is the heap with one Pool in it.    *)
(***************************************************************************)
\* new(Pool)
newPool == [heap |-> StaticHeap, buf |-> ZeroBuffer, scratch |-> NilSlice]

\* p.get(): given says whether p is non-nil.  A nil p yields a new Pool, a
\* non-nil one is reset: its buffer emptied, its scratch cut to length 0
get(m, given) ==
    IF given THEN [m EXCEPT !.buf = BufReset(@), !.scratch = SliceEmpty(@)]
    ELSE [m EXCEPT !.buf = ZeroBuffer, !.scratch = NilSlice]

\* the machine after a write to p.buf
Written(m, r) == [m EXCEPT !.heap = r.h, !.buf = r.b]

\* p.buf.Write(data)
Write(m, data) == Written(m, BufWrite(m.heap, m.buf, data))

\* p.buf.Write(src)
WriteSlice(m, src) == Written(m, BufWriteSlice(m.heap, m.buf, src))

\* p.buf.Write(r.s), r the result of an append
WriteAppended(m, r) == Written(m, BufWriteSlice(r.h, m.buf, r.s))

\* p.buf.Write(strconv.AppendInt(p.scratch, i, 10)): the digits go to the
\* spare capacity of scratch (p.scratch itself is not reassigned)
WriteInt(m, i) == WriteAppended(m, GoAppend(m.heap, m.scratch, FormatInt(i)))

\* the index of the first x in b, 0 when there is none
IndexByte(b, x) ==
    IF \E i \in 1..Len(b) : b[i] = x
    THEN CHOOSE i \in 1..Len(b) : b[i] = x /\ \A j \in 1..(i - 1) : b[j] # x
    ELSE 0

\* p.buf.Next(i + 1), i found by readSlice (0: no delimiter, all is taken)
readSliceNext(m, i, r) ==
    [m |-> [m EXCEPT !.buf = r.b], b |-> r.data, err |-> IF i = 0 THEN "EOF" ELSE "nil"]

readSliceAt(m, i) ==
    readSliceNext(m, i, BufNext(m.heap, m.buf, IF i = 0 THEN BufLen(m.buf) + 1 ELSE i))

readSlice(m, x) == readSliceAt(m, IndexByte(BufBytes(m.heap, m.buf), x))

\* bufferedPrefix that discards the bytes without comparing them
bufferedPrefixNext_Unchecked(m, prefix, r) == [m |-> [m EXCEPT !.buf = r.b], err |-> "nil"]

bufferedPrefixNext(m, prefix, r) ==
    [m |-> [m EXCEPT !.buf = r.b], err |-> IF r.data = prefix THEN "nil" ELSE "prefix"]

bufferedPrefix(m, prefix) == bufferedPrefixNext(m, prefix, BufNext(m.heap, m.buf, Len(prefix)))

\* bufferedBytesDelim after readSlice found the CR: ReadByte takes the byte
\* that follows, whatever it is; b[:len(b)-1] drops the CR
bufferedBytesDelimTail(r, t) ==
    [m |-> [r.m EXCEPT !.buf = t.b], isnil |-> FALSE,
     b |-> SubSeq(r.b, 1, Len(r.b) - 1), err |-> t.err]

bufferedBytesDelimRead(r) ==
    IF r.err # "nil" THEN [m |-> r.m, isnil |-> TRUE, b |-> <<>>, err |-> r.err]
    ELSE bufferedBytesDelimTail(r, BufReadByte(r.m.heap, r.m.buf))

\* b is meaningful where isnil is FALSE
bufferedBytesDelim(m) == bufferedBytesDelimRead(readSlice(m, delim[1]))

bufferedIntDelimParsed(r, p) == [m |-> r.m, n |-> p.n, err |-> p.err]

bufferedIntDelimRead(r) ==
    IF r.err # "nil" THEN [m |-> r.m, n |-> 0, err |-> r.err]
    ELSE bufferedIntDelimParsed(r, ParseInt(r.b))

bufferedIntDelim(m) == bufferedIntDelimRead(bufferedBytesDelim(m))

(***************************************************************************)
(* Values of the scalar codecs.  A []byte is [isnil, b]; an error is      *)
(* [isnil, b] with b its message; integers are n.  One record shape       *)
(* serves all five kinds.                                                  *)
(***************************************************************************)
Bytes(b) == [isnil |-> FALSE, b |-> b, n |-> 0]
NilBytes == [isnil |-> TRUE, b |-> <<>>, n |-> 0]
Num(n) == [isnil |-> FALSE, b |-> <<>>, n |-> n]

Kinds == {"SimpleString", "Error", "Int", "BulkString", "ArrayHeader"}

\* the values of each kind the model marshals
ScalarValues(kind) ==
    IF kind \in {"Int", "ArrayHeader"} THEN {Num(n) : n \in Ints}
    ELSE {NilBytes} \cup {Bytes(b) : b \in Payloads}

\* the caller's []byte, placed in the heap
UserSlice(h, v) ==
    IF v.isnil THEN [h |-> h, s |-> NilSlice] ELSE NewArray(h, v.b, Len(v.b))

\* what MarshalRESP returns: p.buf.Bytes() and a nil error
Marshaled(m) == [m |-> m, out |-> BufBytesSlice(m.buf), err |-> "nil"]

(***************************************************************************)
(* The scalar codecs' MarshalRESP (resp.go:169-324).  m is the machine,    *)
(* given whether the value's Pool field is non-nil.                        *)
(***************************************************************************)
SimpleString_MarshalRESP(m, given, S) ==
    Marshaled(Write(WriteSlice(Write(get(m, given), simpleStrPrefix), S), delim))

\* E is [isnil, b]: a nil error, or one whose Error() is b
\* if e.E != nil { p.buf.WriteString(e.E.Error()) }
WriteError(p, E) == IF E.isnil THEN p ELSE Write(p, E.b)

Error_MarshalRESP(m, given, E) ==
    Marshaled(Write(WriteError(Write(get(m, given), errPrefix), E), delim))

Int_MarshalRESP(m, given, I) ==
    Marshaled(Write(WriteInt(Write(get(m, given), intPrefix), I), delim))

\* BulkString.MarshalRESP without the nil case: nil is written as length 0
BulkString_MarshalRESP_NoNil(m, given, B) ==
    Marshaled(Write(WriteSlice(Write(WriteInt(Write(get(m, given), bulkStrPrefix),
                                              B.l), delim), B), delim))

BulkString_MarshalRESP(m, given, B) ==
    IF IsNil(B) THEN [m |-> m, out |-> nilBulkStringSlice, err |-> "nil"]
    ELSE Marshaled(Write(WriteSlice(Write(WriteInt(Write(get(m, given), bulkStrPrefix),
                                                   B.l), delim), B), delim))

ArrayHeader_MarshalRESP(m, given, N) ==
    Marshaled(Write(WriteInt(Write(get(m, given), arrayPrefix), N), delim))

(***************************************************************************)
(* The scalar codecs' UnmarshalRESP (resp.go:178-336) into a destination   *)
(* whose Pool field is nil.  old is the destination before the call, the   *)
(* result holds the destination after it and the error returned.          *)
(***************************************************************************)
\* p := x.get(); p.buf.Write(b)
Loaded(b) == Write(get(newPool, FALSE), b)

\* ss.S = b; return err
SimpleString_Line(r) == [dst |-> IF r.isnil THEN NilBytes ELSE Bytes(r.b), err |-> r.err]

SimpleString_Prefixed(old, p) ==
    IF p.err # "nil" THEN [dst |-> old, err |-> p.err]
    ELSE SimpleString_Line(bufferedBytesDelim(p.m))

SimpleString_UnmarshalRESP(old, b) ==
    SimpleString_Prefixed(old, bufferedPrefix(Loaded(b), simpleStrPrefix))

\* e.E = errors.New(string(b)); return err
Error_Line(r) == [dst |-> Bytes(r.b), err |-> r.err]

Error_Prefixed(old, p) ==
    IF p.err # "nil" THEN [dst |-> old, err |-> p.err]
    ELSE Error_Line(bufferedBytesDelim(p.m))

Error_UnmarshalRESP(old, b) == Error_Prefixed(old, bufferedPrefix(Loaded(b), errPrefix))

\* i.I = n; return err
Int_Line(r) == [dst |-> Num(r.n), err |-> r.err]

Int_Prefixed(old, p) ==
    IF p.err # "nil" THEN [dst |-> old, err |-> p.err]
    ELSE Int_Line(bufferedIntDelim(p.m))

Int_UnmarshalRESP(old, b) == Int_Prefixed(old, bufferedPrefix(Loaded(b), intPrefix))

\* the payload appended to b.B, then the two bytes that must be the delim
BulkString_Checked(B1, nn, d) ==
    [dst |-> Bytes(B1),
     err |-> IF Len(B1) # nn THEN "length" ELSE IF d.data # delim THEN "delim" ELSE "nil"]

BulkString_Body(B0, nn, m, body) ==
    BulkString_Checked(B0 \o body.data, nn, BufNext(m.heap, body.b, 2))

\* make([]byte, 0, nn) and Buffer.Next(nn) panic when nn is negative
BulkString_Length(old, r) ==
    IF r.err # "nil" THEN [dst |-> old, err |-> r.err]
    ELSE IF r.n = -1 THEN [dst |-> NilBytes, err |-> "nil"]
    ELSE IF r.n < 0 THEN [dst |-> old, err |-> "panic"]
    ELSE BulkString_Body(IF old.isnil THEN <<>> ELSE old.b, r.n, r.m,
                         BufNext(r.m.heap, r.m.buf, r.n))

BulkString_Prefixed(old, p) ==
    IF p.err # "nil" THEN [dst |-> old, err |-> p.err]
    ELSE BulkString_Length(old, bufferedIntDelim(p.m))

BulkString_UnmarshalRESP(old, bb) ==
    BulkString_Prefixed(old, bufferedPrefix(Loaded(bb), bulkStrPrefix))

\* ah.N = int(n); return err
ArrayHeader_Line(r) == [dst |-> Num(r.n), err |-> r.err]

ArrayHeader_Prefixed(old, p) ==
    IF p.err # "nil" THEN [dst |-> old, err |-> p.err]
    ELSE ArrayHeader_Line(bufferedIntDelim(p.m))

ArrayHeader_UnmarshalRESP(old, b) ==
    ArrayHeader_Prefixed(old, bufferedPrefix(Loaded(b), arrayPrefix))

\* SimpleString{Pool, S: u.s}.MarshalRESP(), u the caller's slice
SimpleString_Of(m, given, u) == SimpleString_MarshalRESP([m EXCEPT !.heap = u.h], given, u.s)

\* BulkString{Pool, B: u.s}.MarshalRESP(), u the caller's slice
BulkString_Of(m, given, u) == BulkString_MarshalRESP([m EXCEPT !.heap = u.h], given, u.s)

(***************************************************************************)
(* The values handed to Any.MarshalRESP, by what the type switch and        *)
(* reflection see of them.  One record shape serves all:                   *)
(*   k      the kind: "bytes", "string", "bool", "float32", "float64",    *)
(*          "nil", "int", "error", "custom", "ptr", "slice", "array",      *)
(*          "map", "reflect.Value"                                         *)
(*   isnil  a nil []byte, pointer, slice or map                            *)
(*   b      the bytes of a []byte, string or error message, or what a      *)
(*          custom type's MarshalRESP / MarshalText / MarshalBinary returns*)
(*   n      an integer; a bool as 0 or 1; a float as twice its value       *)
(*   el     the pointee, the elements, or a map's keys and values in the   *)
(*          order MapKeys yields them (key, value, key, value, ...)        *)
(*   caps   the marshal interfaces a custom type implements, among         *)
(*          "resp", "text", "binary"; none makes it a plain struct         *)
(*   fails  whether the custom type's marshal method returns an error      *)
(***************************************************************************)
Value(k, isnil, b, n, el, caps, fails) ==
    [k |-> k, isnil |-> isnil, b |-> b, n |-> n, el |-> el, caps |-> caps, fails |-> fails]

VBytes(b) == Value("bytes", FALSE, b, 0, <<>>, {}, FALSE)
VNilBytes == Value("bytes", TRUE, <<>>, 0, <<>>, {}, FALSE)
VString(b) == Value("string", FALSE, b, 0, <<>>, {}, FALSE)
VBool(n) == Value("bool", FALSE, <<>>, n, <<>>, {}, FALSE)
VFloat(k, n) == Value(k, FALSE, <<>>, n, <<>>, {}, FALSE)
VNil == Value("nil", TRUE, <<>>, 0, <<>>, {}, FALSE)
VInt(n) == Value("int", FALSE, <<>>, n, <<>>, {}, FALSE)
VError(b) == Value("error", FALSE, b, 0, <<>>, {}, FALSE)
VCustom(caps, b, fails) == Value("custom", FALSE, b, 0, <<>>, caps, fails)
VStruct == Value("custom", FALSE, <<>>, 0, <<>>, {}, FALSE)
VPtr(v) == Value("ptr", FALSE, <<>>, 0, <<v>>, {}, FALSE)
VNilPtr == Value("ptr", TRUE, <<>>, 0, <<>>, {}, FALSE)
VSlice(el) == Value("slice", FALSE, <<>>, 0, el, {}, FALSE)
VNilSlice == Value("slice", TRUE, <<>>, 0, <<>>, {}, FALSE)
VArray(el) == Value("array", FALSE, <<>>, 0, el, {}, FALSE)
VMap(el) == Value("map", FALSE, <<>>, 0, el, {}, FALSE)
VNilMap == Value("map", TRUE, <<>>, 0, <<>>, {}, FALSE)
\* the reflect.Value that reflect.Indirect returns, itself a struct
VReflectValue(el) == Value("reflect.Value", FALSE, <<>>, 0, el, {}, FALSE)

\* strconv.AppendFloat(dst, f, 'f', -1, bits) for f a multiple of one half,
\* n twice f: the integer part, and ".5" when n is odd
FormatFloat(n) ==
    (IF n < 0 THEN <<45>> ELSE <<>>)
    \o Digits((IF n < 0 THEN -n ELSE n) \div 2)
    \o (IF n % 2 = 1 THEN <<46, 53>> ELSE <<>>)

(***************************************************************************)
(* Any.MarshalRESP (resp.go:359-488).  A result is [m, out, err]: the      *)
(* machine after the call, the slice returned, the error returned ("nil"   *)
(* for none, "panic" when the call panics).                                *)
(***************************************************************************)
RECURSIVE Any_MarshalRESP(_, _, _)
RECURSIVE arrVals(_, _, _)

\* the machine after p.scratch = r.s, r the result of an append
ScratchSet(p, r) == [p EXCEPT !.heap = r.h, !.scratch = r.s]

\* p.scratch = append(p.scratch, data...)
AppendScratch(p, data) == ScratchSet(p, GoAppend(p.heap, p.scratch, data))

\* the end of bulkStrFromScratch: p.scratch = append(ogScratch, p.scratch...)
bulkStrFromScratchEnd(og, r) ==
    [r EXCEPT !.m = ScratchSet(r.m, GoAppend(r.m.heap, og, SliceBytes(r.m.heap, r.m.scratch)))]

\* bulkStrFromScratch: the bulk string is given ogScratch as B, while
\* p.scratch is moved past what it holds
bulkStrFromScratch(p) ==
    bulkStrFromScratchEnd(p.scratch,
        BulkString_MarshalRESP([p EXCEPT !.scratch = SliceFrom(@, @.l)], TRUE, p.scratch))

\* at.MarshalRESP() of a custom Marshaler: its own bytes, or its error
Custom_MarshalRESP(p, v, u) ==
    IF v.fails THEN [m |-> p, out |-> NilSlice, err |-> "custom"]
    ELSE [m |-> [p EXCEPT !.heap = u.h], out |-> u.s, err |-> "nil"]

\* b, err := at.MarshalText() (or MarshalBinary()), then BulkString{p, b}
Custom_MarshalText(p, v) ==
    IF v.fails THEN [m |-> p, out |-> NilSlice, err |-> "custom"]
    ELSE BulkString_Of(p, TRUE, UserSlice(p.heap, v))

\* return nil, fmt.Errorf("could not marshal value of type %T", a.I)
Unsupported(p) == [m |-> p, out |-> NilSlice, err |-> "unsupported"]

\* vv.IsNil() on a reflect.Array panics
Panicked(p) == [m |-> p, out |-> NilSlice, err |-> "panic"]

\* arrHeader(l): the header goes through the Pool, then onto ogBuf.  st is
\* [p, og, err]: the machine, ogBuf, and the err the closures share.
arrHeaderWritten(st, r, w) == [p |-> [r.m EXCEPT !.heap = w.h], og |-> w.b, err |-> r.err]

arrHeaderMarshaled(st, r) ==
    IF r.err # "nil" THEN [p |-> r.m, og |-> st.og, err |-> r.err]
    ELSE arrHeaderWritten(st, r, BufWriteSlice(r.m.heap, st.og, r.out))

arrHeader(st, l) ==
    IF st.err # "nil" THEN st
    ELSE arrHeaderMarshaled(st, ArrayHeader_MarshalRESP(st.p, TRUE, l))

\* arrVal(v): p.buf becomes the unused tail of ogBuf, the element goes
\* through the Pool as an Any, and err is assigned whatever that returns
arrValWritten(r, w) == [p |-> [r.m EXCEPT !.heap = w.h], og |-> w.b, err |-> r.err]

arrValMarshaled(st, r) ==
    IF r.err # "nil" THEN [p |-> r.m, og |-> st.og, err |-> r.err]
    ELSE arrValWritten(r, BufWriteSlice(r.m.heap, st.og, r.out))

arrVal(st, v) ==
    arrValMarshaled(st,
        Any_MarshalRESP([st.p EXCEPT !.buf = NewBuffer(SliceFrom(BufBytesSlice(st.og),
                                                                 BufLen(st.og)))],
                        TRUE, v))

\* the loop over the elements; a panic ends the call
arrVals(st, el, i) ==
    IF i > Len(el) \/ st.err = "panic" THEN st
    ELSE arrVals(arrVal(st, el[i]), el, i + 1)

\* p.buf = ogBuf; return ogBuf.Bytes(), err
arrReturn(st) ==
    IF st.err = "panic" THEN Panicked(st.p)
    ELSE [m |-> [st.p EXCEPT !.buf = st.og], out |-> BufBytesSlice(st.og), err |-> st.err]

\* ogBuf.Write(nilArray), for a nil slice or map
arrNil(p, w) == [p |-> [p EXCEPT !.heap = w.h], og |-> w.b, err |-> "nil"]

\* the reflection half: pointers, then ogBuf := p.buf and the switch on the
\* kind.  A map's keys and values are its el, so its header counts them all.
Any_Reflect(p, v) ==
    IF v.k = "ptr" THEN Any_MarshalRESP(p, TRUE, VReflectValue(v.el))
    ELSE IF v.k = "array" THEN Panicked(p)
    ELSE IF v.k \in {"slice", "map"}
    THEN IF v.isnil
         THEN arrReturn(arrNil(p, BufWrite(p.heap, p.buf, nilArray)))
         ELSE arrReturn(arrVals(arrHeader([p |-> p, og |-> p.buf, err |-> "nil"], Len(v.el)),
                                v.el, 1))
    ELSE Unsupported(p)

\* the type switch on a.I, in the order of its cases
Any_Switch(p, v) ==
    IF v.k = "bytes" THEN BulkString_Of(p, TRUE, UserSlice(p.heap, v))
    ELSE IF v.k = "string" THEN bulkStrFromScratch(AppendScratch(p, v.b))
    ELSE IF v.k = "bool"
    THEN BulkString_Of(p, TRUE, NewArray(p.heap, bools[v.n + 1], 1))
    ELSE IF v.k \in {"float32", "float64"}
    THEN bulkStrFromScratch(AppendScratch(p, FormatFloat(v.n)))
    ELSE IF v.k = "nil" THEN BulkString_MarshalRESP(p, TRUE, NilSlice)
    ELSE IF v.k = "int" THEN Int_MarshalRESP(p, TRUE, v.n)
    ELSE IF v.k = "error" THEN Error_MarshalRESP(p, TRUE, v)
    ELSE IF v.k = "custom" /\ "resp" \in v.caps
    THEN Custom_MarshalRESP(p, v, UserSlice(p.heap, v))
    ELSE IF v.k = "custom" /\ "text" \in v.caps THEN Custom_MarshalText(p, v)
    ELSE IF v.k = "custom" /\ "binary" \in v.caps THEN Custom_MarshalText(p, v)
    ELSE Any_Reflect(p, v)

Any_MarshalRESP(m, given, v) == Any_Switch(get(m, given), v)

(***************************************************************************)
(* encoder2 (encoder2.go).  The encoder is [buf, err, sink, room, body]:   *)
(* the bytes buffered in e.w and its sticky error, the bytes the sink has  *)
(* taken and how many more it takes before its writes fail, and the unread *)
(* bytes of e.bodyBuf.  The sink is a plain io.Writer.                     *)
(***************************************************************************)
nilBulkStr == <<36, 45, 49, 13, 10>>

NewEncoder2 == [buf |-> <<>>, err |-> "nil", sink |-> <<>>, room |-> 0, body |-> <<>>]

\* a user's LenReader over v.b whose Read fails once v.n bytes are read
\* (never, when v.n is negative); Len() reports len(v.b)
VLenReader(b, n) == Value("lenreader", FALSE, b, n, <<>>, {}, FALSE)

\* the sink's Write(p): all of p, or as much as there is room for and an error
Sink_Write(e, p) ==
    IF Len(p) <= e.room
    THEN [e |-> [e EXCEPT !.sink = @ \o p, !.room = @ - Len(p)], n |-> Len(p), err |-> "nil"]
    ELSE [e |-> [e EXCEPT !.sink = @ \o SubSeq(p, 1, e.room), !.room = 0],
          n |-> e.room, err |-> "sink"]

\* bufio.Writer.Available()
Available(e) == bufioSize - Len(e.buf)

\* the end of bufio.Writer.Flush: r is the sink's answer to the k buffered bytes
Writer_Flushed(r, k) ==
    IF r.err # "nil"
    THEN [e |-> [r.e EXCEPT !.buf = SubSeq(@, r.n + 1, k), !.err = r.err], err |-> r.err]
    ELSE [e |-> [r.e EXCEPT !.buf = <<>>], err |-> "nil"]

\* bufio.Writer.Flush()
Writer_Flush(e) ==
    IF e.err # "nil" THEN [e |-> e, err |-> e.err]
    ELSE IF e.buf = <<>> THEN [e |-> e, err |-> "nil"]
    ELSE Writer_Flushed(Sink_Write(e, e.buf), Len(e.buf))

RECURSIVE Writer_Write(_, _, _)
\* large write, empty buffer: n, b.err = b.wr.Write(p)
Writer_Direct(r, p, nn) ==
    Writer_Write([r.e EXCEPT !.err = r.err], SubSeq(p, r.n + 1, Len(p)), nn + r.n)

\* n = copy(b.buf[b.n:], p); b.n += n; b.Flush()
Writer_Fill(e, p, nn, n) ==
    Writer_Write(Writer_Flush([e EXCEPT !.buf = @ \o SubSeq(p, 1, n)]).e,
                 SubSeq(p, n + 1, Len(p)), nn + n)

\* bufio.Writer.Write(p), nn the bytes taken so far
Writer_Write(e, p, nn) ==
    IF Len(p) > Available(e) /\ e.err = "nil"
    THEN IF e.buf = <<>> THEN Writer_Direct(Sink_Write(e, p), p, nn)
         ELSE Writer_Fill(e, p, nn, Available(e))
    ELSE IF e.err # "nil" THEN [e |-> e, n |-> nn, err |-> e.err]
    ELSE [e |-> [e EXCEPT !.buf = @ \o p], n |-> nn + Len(p), err |-> "nil"]

\* a reader at position pos of its data
Reader(v) == [data |-> v.b, pos |-> 0, failAt |-> v.n]

\* the reader hands over the bytes up to position upto
Reader_Take(rd, upto) ==
    [rd |-> [rd EXCEPT !.pos = upto], b |-> SubSeq(rd.data, rd.pos + 1, upto), err |-> "nil"]

\* where a Read into avail > 0 bytes ends: at the failure, at the end of the
\* data, or when the room is used up
Reader_Upto(rd, avail, stop) ==
    IF rd.pos + avail < stop THEN rd.pos + avail ELSE stop

\* lr.Read(p), len(p) = avail
Reader_Read(rd, avail) ==
    IF rd.pos = rd.failAt THEN [rd |-> rd, b |-> <<>>, err |-> "read"]
    ELSE IF rd.pos = Len(rd.data) THEN [rd |-> rd, b |-> <<>>, err |-> "EOF"]
    ELSE Reader_Take(rd, Reader_Upto(rd, avail,
                                     IF rd.failAt > rd.pos /\ rd.failAt < Len(rd.data)
                                     THEN rd.failAt ELSE Len(rd.data)))

RECURSIVE Writer_ReadFrom(_, _)
\* after m, err = r.Read(b.buf[b.n:])
ReadFrom_Read(e, r) ==
    IF r.err = "nil" THEN Writer_ReadFrom([e EXCEPT !.buf = @ \o r.b], r.rd)
    ELSE IF r.err = "EOF"
    THEN IF Available(e) = 0 THEN Writer_Flush(e) ELSE [e |-> e, err |-> "nil"]
    ELSE [e |-> e, err |-> r.err]

\* after the Flush of a full buffer
ReadFrom_Flushed(f, rd) ==
    IF f.err # "nil" THEN f ELSE ReadFrom_Read(f.e, Reader_Read(rd, Available(f.e)))

\* the loop of bufio.Writer.ReadFrom(r)
Writer_ReadFrom(e, rd) ==
    IF Available(e) = 0 THEN ReadFrom_Flushed(Writer_Flush(e), rd)
    ELSE ReadFrom_Read(e, Reader_Read(rd, Available(e)))

\* io.Copy(e.w, lr), lr a plain reader: e.w.ReadFrom(lr)
Copy_Reader(e, rd) ==
    IF e.err # "nil" THEN [e |-> e, err |-> e.err] ELSE Writer_ReadFrom(e, rd)

\* the end of bytes.Buffer.WriteTo: r is e.w's answer to the k unread bytes
Buffer_WroteTo(r, k) ==
    IF r.err # "nil" THEN [e |-> [r.e EXCEPT !.body = SubSeq(@, r.n + 1, k)], err |-> r.err]
    ELSE [e |-> [r.e EXCEPT !.body = <<>>], err |-> "nil"]

\* io.Copy(e.w, e.bodyBuf): e.bodyBuf.WriteTo(e.w)
Copy_BodyBuf(e) ==
    IF e.body = <<>> THEN [e |-> e, err |-> "nil"]
    ELSE Buffer_WroteTo(Writer_Write(e, e.body, 0), Len(e.body))

(***************************************************************************)
(* The writes of one value.  st is [e, err, log]: the encoder, the error   *)
(* so far, and the steps taken, each [part, b, done, err]: which part of   *)
(* the value, its bytes, whether they were handed to e.w, and the error    *)
(* that came back.                                                         *)
(***************************************************************************)
Step(part, b, done, err) == [part |-> part, b |-> b, done |-> done, err |-> err]

Begin(e) == [e |-> e, err |-> "nil", log |-> <<>>]

Failed(e, err) == [e |-> e, err |-> err, log |-> <<>>]

\* _, err := e.w.Write(b); return err
writeBytesDone(st, r, part, b) ==
    [e |-> r.e, err |-> r.err, log |-> Append(st.log, Step(part, b, TRUE, r.err))]

\* writeBytes without the look at prevErr
writeBytes_Unchained(st, part, b) == writeBytesDone(st, Writer_Write(st.e, b, 0), part, b)

\* err = e.writeBytes(err, b)
writeBytes(st, part, b) ==
    IF st.err # "nil" THEN [st EXCEPT !.log = Append(@, Step(part, b, FALSE, "nil"))]
    ELSE writeBytesDone(st, Writer_Write(st.e, b, 0), part, b)

\* _, err = io.Copy(e.w, lr)
writeLenReaderCopied(st, r, b) ==
    [e |-> r.e, err |-> r.err, log |-> Append(st.log, Step("body", b, TRUE, r.err))]

\* writeLenReader after the header: the early return, the copy, the delim
writeLenReaderBody(st, v) ==
    IF st.err # "nil" THEN st
    ELSE writeBytes(
             IF v.k = "lenreader"
             THEN writeLenReaderCopied(st, Copy_Reader(st.e, Reader(v)), v.b)
             ELSE writeLenReaderCopied(st, Copy_BodyBuf(st.e), st.e.body),
             "term", delim)

\* writeLenReader(lr), lr the user's reader v or e.bodyBuf
writeLenReader(e, v) ==
    writeLenReaderBody(
        writeBytes(writeBytes(writeBytes(Begin(e), "prefix", bulkStrPrefix),
                              "len", FormatInt(IF v.k = "lenreader" THEN Len(v.b)
                                               ELSE Len(e.body))),
                   "delim", delim),
        v)

\* e.bodyBuf.Write(b); return e.writeLenReader(e.bodyBuf)
writeBody(e, v, b) == writeLenReader([e EXCEPT !.body = @ \o b], v)

writeInt(e, i) ==
    writeBytes(writeBytes(writeBytes(Begin(e), "prefix", intPrefix), "int", FormatInt(i)),
               "term", delim)

writeAppErr(e, msg) ==
    writeBytes(writeBytes(writeBytes(Begin(e), "prefix", errPrefix), "msg", msg),
               "term", delim)

writeBulkNil(e) == writeBytes(Begin(e), "nil", nilBulkStr)

RECURSIVE write(_, _)
\* encoder2.write(v): the type switch in the order of its cases, then the
\* pointer, then the error
write(e, v) ==
    IF v.k = "lenreader" THEN writeLenReader(e, v)
    ELSE IF v.k \in {"bytes", "string"} THEN writeBody(e, v, v.b)
    ELSE IF v.k = "bool" THEN writeBody(e, v, bools[v.n + 1])
    ELSE IF v.k \in {"float32", "float64"} THEN writeBody(e, v, FormatFloat(v.n))
    ELSE IF v.k = "nil" THEN writeBulkNil(e)
    ELSE IF v.k = "int" THEN writeInt(e, v.n)
    ELSE IF v.k = "error" THEN writeAppErr(e, v.b)
    ELSE IF v.k = "custom" /\ (v.caps \cap {"text", "binary"}) # {}
    THEN IF v.fails THEN Failed(e, "custom") ELSE writeBody(e, v, v.b)
    ELSE IF v.k = "custom" /\ "marshal" \in v.caps
    THEN IF v.fails THEN Failed(e, "custom") ELSE writeBytes(Begin(e), "marshal", v.b)
    ELSE IF v.k = "ptr"
    THEN IF v.isnil THEN Failed(e, "panic") ELSE write(e, v.el[1])
    ELSE Failed(e, "unsupported")

\* if ferr := e.w.Flush(); ferr != nil && err == nil { err = ferr }
Encode_Flushed(st, f) ==
    [e |-> f.e, werr |-> st.err, ferr |-> f.err, log |-> st.log,
     ret |-> IF f.err # "nil" /\ st.err = "nil" THEN f.err ELSE st.err]

\* encoder2.Encode(v); a panic of write ends the call before the Flush
encoder2_Encode(st) ==
    IF st.err = "panic"
    THEN [e |-> st.e, werr |-> st.err, ferr |-> "nil", log |-> st.log, ret |-> "panic"]
    ELSE Encode_Flushed(st, Writer_Flush(st.e))

(***************************************************************************)
(* What of a machine outlives a call: the arrays the Pool still refers to  *)
(* (the garbage collector's view), renumbered.                             *)
(***************************************************************************)
Compact(m) ==
    LET live == {1, 2} \cup ({m.buf.s.a, m.scratch.a} \ {0})
        rank(x) == Cardinality({y \in live : y <= x})
        old(i) == CHOOSE x \in live : rank(x) = i
    IN [heap |-> [i \in 1..Cardinality(live) |-> m.heap[old(i)]],
        buf |-> [m.buf EXCEPT !.s.a = IF @ = 0 THEN 0 ELSE rank(@)],
        scratch |-> [m.scratch EXCEPT !.a = IF @ = 0 THEN 0 ELSE rank(@)]]

(***************************************************************************)
(* State of the scalar codec calls.                                        *)
(***************************************************************************)
NoWire == [kind |-> "none", val |-> Num(0), given |-> FALSE, out |-> <<>>, err |-> "nil"]

NoDec ==
    [kind |-> "none", origin |-> "none", src |-> NoWire, input |-> <<>>,
     old |-> Num(0), dst |-> Num(0), err |-> "nil"]

\* no Any.MarshalRESP call made yet
NoCall ==
    [op |-> "none", nth |-> 0, val |-> VNil, given |-> FALSE, out |-> <<>>, err |-> "nil",
     fresh |-> [out |-> <<>>, err |-> "nil"]]

\* no Encode call made yet
NoEnc ==
    [op |-> "none", nth |-> 0, val |-> VNil, pre |-> NewEncoder2, e |-> NewEncoder2,
     werr |-> "nil", ferr |-> "nil", ret |-> "nil", log |-> <<>>]

\* the zero value of a destination: S, E and B nil, I and N zero
ZeroValue(kind) == IF kind \in {"Int", "ArrayHeader"} THEN Num(0) ELSE NilBytes

MarshalRESP(m, kind, given, v) ==
    IF kind = "SimpleString" THEN SimpleString_Of(m, given, UserSlice(m.heap, v))
    ELSE IF kind = "Error" THEN Error_MarshalRESP(m, given, v)
    ELSE IF kind = "Int" THEN Int_MarshalRESP(m, given, v.n)
    ELSE IF kind = "BulkString" THEN BulkString_Of(m, given, UserSlice(m.heap, v))
    ELSE ArrayHeader_MarshalRESP(m, given, v.n)

UnmarshalRESP(kind, old, b) ==
    IF kind = "SimpleString" THEN SimpleString_UnmarshalRESP(old, b)
    ELSE IF kind = "Error" THEN Error_UnmarshalRESP(old, b)
    ELSE IF kind = "Int" THEN Int_UnmarshalRESP(old, b)
    ELSE IF kind = "BulkString" THEN BulkString_UnmarshalRESP(old, b)
    ELSE ArrayHeader_UnmarshalRESP(old, b)

\* X{...}.MarshalRESP() for a value of the kind whose Pool field is nil, as
\* in TestRESPTypes (the codecs run with a Pool inside Any.MarshalRESP).
\* With a nil Pool no call leaves anything behind for the next one, so a
\* run is one MarshalRESP and the UnmarshalRESP of its bytes, or one
\* UnmarshalRESP of an arbitrary input.
Marshaling(kind, v, r) ==
    /\ wire' = [kind |-> kind, val |-> v, given |-> FALSE,
                out |-> SliceBytes(r.m.heap, r.out), err |-> r.err]
    /\ UNCHANGED <<pool, call, dec, enc>>

Marshal(kind) ==
    \E v \in ScalarValues(kind) : Marshaling(kind, v, MarshalRESP(newPool, kind, FALSE, v))

\* the inputs a decode may be given: what the last MarshalRESP returned, a
\* proper prefix of it, a copy of it with one byte replaced, or any short
\* byte string
FreeInputs == SeqsUpTo(InputBytes, MaxInput)

Inputs ==
    {[origin |-> "free", input |-> b] : b \in FreeInputs}
    \cup (IF wire.kind = "none" THEN {}
          ELSE {[origin |-> "wire", input |-> wire.out]}
               \cup {[origin |-> "truncated", input |-> SubSeq(wire.out, 1, n)] :
                        n \in 0..(Len(wire.out) - 1)}
               \cup {[origin |-> "corrupted", input |-> [wire.out EXCEPT ![q[1]] = q[2]]] :
                        q \in {t \in (1..Len(wire.out)) \X InputBytes :
                                 wire.out[t[1]] # t[2]}})

\* new(X).UnmarshalRESP(input) for X the kind
Unmarshaling(kind, i, r) ==
    /\ dec' = [kind |-> kind, origin |-> i.origin, src |-> wire, input |-> i.input,
               old |-> ZeroValue(kind), dst |-> r.dst, err |-> r.err]
    /\ wire' = NoWire
    /\ UNCHANGED <<pool, call, enc>>

Unmarshal(kind) ==
    \E i \in Inputs : Unmarshaling(kind, i, UnmarshalRESP(kind, ZeroValue(kind), i.input))

MarshalSimpleString ==
    /\ wire.kind = "none" /\ dec.kind = "none"
    /\ Marshal("SimpleString")

MarshalError ==
    /\ wire.kind = "none" /\ dec.kind = "none"
    /\ Marshal("Error")

MarshalInt ==
    /\ wire.kind = "none" /\ dec.kind = "none"
    /\ Marshal("Int")

MarshalBulkString ==
    /\ wire.kind = "none" /\ dec.kind = "none"
    /\ Marshal("BulkString")

MarshalArrayHeader ==
    /\ wire.kind = "none" /\ dec.kind = "none"
    /\ Marshal("ArrayHeader")

UnmarshalSimpleString ==
    /\ dec.kind = "none"
    /\ Unmarshal("SimpleString")

UnmarshalError ==
    /\ dec.kind = "none"
    /\ Unmarshal("Error")

UnmarshalInt ==
    /\ dec.kind = "none"
    /\ Unmarshal("Int")

UnmarshalBulkString ==
    /\ dec.kind = "none"
    /\ Unmarshal("BulkString")

UnmarshalArrayHeader ==
    /\ dec.kind = "none"
    /\ Unmarshal("ArrayHeader")

Init ==
    /\ pool = newPool
    /\ call = NoCall
    /\ wire = NoWire
    /\ dec = NoDec
    /\ enc = NoEnc

NextCodec ==
    \/ MarshalSimpleString
    \/ MarshalError
    \/ MarshalInt
    \/ MarshalBulkString
    \/ MarshalArrayHeader
    \/ UnmarshalSimpleString
    \/ UnmarshalError
    \/ UnmarshalInt
    \/ UnmarshalBulkString
    \/ UnmarshalArrayHeader

SpecCodec == Init /\ [][NextCodec]_vars

(***************************************************************************)
(* Properties of the scalar codecs, checked under SpecCodec.               *)
(***************************************************************************)
Prefix(kind) ==
    IF kind = "SimpleString" THEN simpleStrPrefix
    ELSE IF kind = "Error" THEN errPrefix
    ELSE IF kind = "Int" THEN intPrefix
    ELSE IF kind = "BulkString" THEN bulkStrPrefix
    ELSE arrayPrefix

HasPrefix(b, p) == Len(b) >= Len(p) /\ SubSeq(b, 1, Len(p)) = p

\* a value whose encoding is a valid encoding of its kind: the payload of a
\* line (SimpleString, Error) holds no terminator byte
Clean(kind, v) ==
    kind \in {"SimpleString", "Error"} => \A i \in 1..Len(v.b) : v.b[i] \notin {13, 10}

\* the decoded value equals v.  A nil S or E is, by the types' documentation,
\* the empty payload, and decodes as the empty non-nil payload; a nil B is
\* the nil bulk string and has to stay nil.
SameValue(kind, d, v) ==
    IF kind \in {"SimpleString", "Error"} THEN d = Bytes(v.b) ELSE d = v

\* the last decode was given the bytes MarshalRESP returned for a value of
\* the same kind
DecodedOwnEncoding ==
    /\ dec.kind # "none"
    /\ dec.origin = "wire"
    /\ dec.src.kind = dec.kind
    /\ Clean(dec.kind, dec.src.val)

\* C1: for every scalar codec and every value v of its kind, UnmarshalRESP
\* of the bytes MarshalRESP(v) returned, into a fresh destination, succeeds
\* and leaves a value equal to v; nil and empty bulk strings stay distinct.
C1_RoundTrip ==
    DecodedOwnEncoding =>
        /\ dec.src.err = "nil"
        /\ dec.err = "nil"
        /\ SameValue(dec.kind, dec.dst, dec.src.val)

\* C1 witness: a bulk string whose payload is CR LF went through the round
\* trip.
C1_Witness ==
    /\ DecodedOwnEncoding
    /\ dec.kind = "BulkString"
    /\ dec.src.val = Bytes(<<13, 10>>)
    /\ dec.input = <<36, 50, 13, 10, 13, 10, 13, 10>>
    /\ dec.dst = Bytes(<<13, 10>>)

\* C5: UnmarshalRESP of an input that does not start with the codec's type
\* prefix (the empty input included) returns an error and decodes nothing:
\* the destination keeps its zero value.
C5_MalformedPrefix ==
    (dec.kind # "none" /\ ~HasPrefix(dec.input, Prefix(dec.kind))) =>
        /\ dec.err \notin {"nil", "panic"}
        /\ dec.dst = ZeroValue(dec.kind)

\* C5 witness: the encoding of Int 5, decoded as a BulkString, was refused.
C5_Witness ==
    /\ dec.kind = "BulkString"
    /\ dec.src.kind = "Int"
    /\ dec.origin = "wire"
    /\ dec.input = <<58, 53, 13, 10>>
    /\ dec.err = "prefix"

\* C6: UnmarshalRESP of a proper prefix of a valid encoding of the codec's
\* kind returns an error (never success, never a crash).
C6_Truncated ==
    (/\ dec.kind # "none"
     /\ dec.origin = "truncated"
     /\ dec.src.kind = dec.kind
     /\ Clean(dec.kind, dec.src.val)) => dec.err \notin {"nil", "panic"}

\* C6 witness: a bulk string of two bytes cut after its first payload byte
\* ("$2" CR LF "a") was refused for its length.
C6_Witness ==
    /\ dec.kind = "BulkString"
    /\ dec.origin = "truncated"
    /\ dec.src.kind = "BulkString"
    /\ dec.input = <<36, 50, 13, 10, 97>>
    /\ dec.err = "length"

\* C9: a decode succeeds only if the CR that ends its line is immediately
\* followed by LF.
C9_TerminatorStrict ==
    (dec.kind # "none" /\ dec.err = "nil") =>
        /\ IndexByte(dec.input, 13) > 0
        /\ IndexByte(dec.input, 13) < Len(dec.input)
        /\ dec.input[IndexByte(dec.input, 13) + 1] = 10

(***************************************************************************)
(* Calls of Any.MarshalRESP, through one shared Pool or with none.         *)
(***************************************************************************)
Texts == SeqsUpTo({97}, MaxText)

\* values the type switch settles
Leaves ==
    {VBytes(<<>>), VBytes(<<97>>), VNilBytes}
    \cup {VString(t) : t \in Texts}
    \cup {VBool(0), VBool(1)}
    \cup {VFloat("float32", -3), VFloat("float64", 0)}
    \cup {VNil}
    \cup {VInt(n) : n \in {-MaxInt, 0}}
    \cup {VError(<<97>>)}
    \cup {VCustom({"resp"}, <<43, 97, 13, 10>>, FALSE),
          VCustom({"text"}, <<97>>, FALSE),
          VCustom({"text", "binary"}, <<>>, FALSE),
          VCustom({"binary"}, <<97>>, TRUE),
          VStruct}

\* the elements of sequences and maps, and the pointees
Elems ==
    {VString(<<>>), VString(<<97>>), VInt(MaxInt), VStruct,
     VSlice(<<VString(<<97>>)>>), VNilPtr}

ElemSeqs == SeqsUpTo(Elems, MaxElems)

AnyValues ==
    Leaves
    \cup {VSlice(el) : el \in ElemSeqs} \cup {VNilSlice}
    \cup {VArray(el) : el \in {q \in ElemSeqs : Len(q) = MaxElems}}
    \cup {VMap(el) : el \in {q \in ElemSeqs : Len(q) = 2}} \cup {VMap(<<>>), VNilMap}
    \cup {VPtr(v) : v \in Elems} \cup {VNilPtr}

\* the bytes and the error a call returns
Returned(r) == [out |-> SliceBytes(r.m.heap, r.out), err |-> r.err]

\* a call of Any{Pool, I: v}.MarshalRESP() with result r; f is what
\* Any{I: v}.MarshalRESP() returns for the same value
AnyMarshaling(v, given, r, f) ==
    /\ call.nth < MaxCalls
    /\ call' = [op |-> "any", nth |-> call.nth + 1, val |-> v, given |-> given,
                out |-> Returned(r).out, err |-> r.err, fresh |-> Returned(f)]
    /\ pool' = IF given THEN Compact(r.m) ELSE pool
    /\ UNCHANGED <<wire, dec, enc>>

\* Any{Pool: pool, I: v}.MarshalRESP()
AnyMarshalPool ==
    /\ call.err # "panic"
    /\ \E v \in AnyValues :
          AnyMarshaling(v, TRUE, Any_MarshalRESP(pool, TRUE, v),
                        Any_MarshalRESP(newPool, FALSE, v))

\* Any{I: v}.MarshalRESP()
AnyMarshalNoPool ==
    /\ call.err # "panic"
    /\ \E v \in AnyValues :
          AnyMarshaling(v, FALSE, Any_MarshalRESP(pool, FALSE, v),
                        Any_MarshalRESP(newPool, FALSE, v))

NextAny ==
    \/ AnyMarshalPool
    \/ AnyMarshalNoPool

SpecAny == Init /\ [][NextAny]_vars

(***************************************************************************)
(* Properties of Any.MarshalRESP, checked under SpecAny.                   *)
(***************************************************************************)
\* $<len(b)>\r\n<b>\r\n
Bulk(b) == bulkStrPrefix \o FormatInt(Len(b)) \o delim \o b \o delim

\* *<n>\r\n
Header(n) == arrayPrefix \o FormatInt(n) \o delim

\* what Any{I: v}.MarshalRESP() returns
Alone(v) == Returned(Any_MarshalRESP(newPool, FALSE, v))

RECURSIVE ElemsAlone(_, _)
\* the encodings of el[i], el[i+1], ... each marshaled alone, one after another
ElemsAlone(el, i) ==
    IF i > Len(el) THEN <<>> ELSE Alone(el[i]).out \o ElemsAlone(el, i + 1)

RECURSIVE HasNoRule(_)
\* v, or a part of v at any depth, is a value no case of the dispatch takes
HasNoRule(v) ==
    \/ v.k = "custom" /\ v.caps = {}
    \/ \E i \in 1..Len(v.el) : HasNoRule(v.el[i])

RECURSIVE Deref(_)
\* the value at the end of a chain of pointers
Deref(v) == IF v.k = "ptr" /\ ~v.isnil THEN Deref(v.el[1]) ELSE v

\* C2: a call through a Pool used before returns the very bytes that the
\* same value marshaled with no Pool returns
C2_PoolReuse ==
    (call.op = "any" /\ call.given) => call.out = call.fresh.out

\* C3: a non-nil sequence (slice or array) of n elements that each marshal
\* alone yields the header for n and then the elements' encodings in order;
\* a nil sequence yields *-1\r\n
C3_Sequence ==
    (/\ call.op = "any"
     /\ call.val.k \in {"slice", "array"}
     /\ \A i \in 1..Len(call.val.el) : Alone(call.val.el[i]).err = "nil")
    => /\ call.err = "nil"
       /\ call.out = IF call.val.isnil THEN nilArray
                     ELSE Header(Len(call.val.el)) \o ElemsAlone(call.val.el, 1)

\* C4: a text value s yields $<len(s)>\r\n<s>\r\n, the empty text included,
\* with or without a Pool
C4_TextIsBulk ==
    (call.op = "any" /\ call.val.k = "string")
    => call.err = "nil" /\ call.out = Bulk(call.val.b)

\* C7: a value with a part, at any depth, that no dispatch rule takes is
\* answered with an error
C7_UnsupportedIsError ==
    (call.op = "any" /\ HasNoRule(call.val)) => call.err # "nil"

\* C8: a pointer yields what the value at the end of the chain yields when
\* marshaled itself, and a nil pointer yields $-1\r\n
C8_Pointer ==
    (call.op = "any" /\ call.val.k = "ptr")
    => IF Deref(call.val).k = "ptr"
       THEN call.err = "nil" /\ call.out = nilBulkString
       ELSE call.err = Alone(Deref(call.val)).err /\ call.out = Alone(Deref(call.val)).out

(***************************************************************************)
(* Calls of encoder2.Encode on one encoder, whose sink takes some number   *)
(* of bytes and then fails.                                                *)
(***************************************************************************)
\* the user's LenReaders: some text, read to its end or failing on the way
LenReaders ==
    {VLenReader(t[1], t[2]) : t \in {q \in Texts \X (-1..MaxText) : q[2] <= Len(q[1])}}

\* the other values given to Encode
EncValues ==
    {VBytes(<<>>), VBytes(<<97>>), VNilBytes, VString(<<97, 97>>), VBool(1),
     VFloat("float32", -3), VFloat("float64", 0), VNil, VInt(-MaxInt), VInt(0),
     VError(<<97>>),
     VCustom({"text"}, <<97>>, FALSE), VCustom({"text", "marshal"}, <<>>, TRUE),
     VCustom({"binary"}, <<97>>, FALSE), VCustom({"marshal"}, <<43, 97, 13, 10>>, FALSE),
     VCustom({"text", "marshal"}, <<43, 97, 13, 10>>, FALSE),
     VStruct, VSlice(<<>>), VPtr(VInt(0)), VPtr(VPtr(VString(<<97>>))), VNilPtr}

\* a call of Encode(v) with outcome r on the encoder enc.e
Encoding(v, r) ==
    /\ enc' = [op |-> "encode", nth |-> enc.nth + 1, val |-> v, pre |-> enc.e, e |-> r.e,
               werr |-> r.werr, ferr |-> r.ferr, ret |-> r.ret, log |-> r.log]
    /\ UNCHANGED <<pool, call, wire, dec>>

\* e.Encode(lr), lr a LenReader of the caller
EncodeLenReader ==
    /\ enc.nth < MaxEncodes
    /\ enc.ret # "panic"
    /\ \E v \in LenReaders : Encoding(v, encoder2_Encode(write(enc.e, v)))

\* e.Encode(v), v anything else
EncodeValue ==
    /\ enc.nth < MaxEncodes
    /\ enc.ret # "panic"
    /\ \E v \in EncValues : Encoding(v, encoder2_Encode(write(enc.e, v)))

InitEncoder ==
    /\ pool = newPool
    /\ call = NoCall
    /\ wire = NoWire
    /\ dec = NoDec
    /\ \E room \in 0..MaxRoom : enc = [NoEnc EXCEPT !.pre.room = room, !.e.room = room]

NextEncoder ==
    \/ EncodeLenReader
    \/ EncodeValue

SpecEncoder == InitEncoder /\ [][NextEncoder]_vars

(***************************************************************************)
(* Properties of encoder2.Encode, checked under SpecEncoder.               *)
(***************************************************************************)
\* the first step of the log that came back with an error, Len(log) + 1 if none
RECURSIVE FirstFailure(_, _)
FirstFailure(log, i) ==
    IF i > Len(log) \/ log[i].err # "nil" THEN i ELSE FirstFailure(log, i + 1)

RECURSIVE Parts(_, _)
\* the bytes of the first k steps of the log
Parts(log, k) == IF k = 0 THEN <<>> ELSE Parts(log, k - 1) \o log[k].b

\* what the sink and e.w's buffer took in during the call
TakenIn(x) ==
    SubSeq(x.e.sink \o x.e.buf, Len(x.pre.sink \o x.pre.buf) + 1, Len(x.e.sink \o x.e.buf))

IsPrefix(a, b) == Len(a) <= Len(b) /\ SubSeq(b, 1, Len(a)) = a

\* the bytes a call may have delivered: the steps before the first failure
\* whole, and a part of the failing step
DeliveredUpTo(x, k) ==
    /\ IsPrefix(Parts(x.log, k - 1), TakenIn(x))
    /\ IsPrefix(TakenIn(x), Parts(x.log, IF k > Len(x.log) THEN k - 1 ELSE k))

\* C10: within one Encode call no step after the first failed step is
\* handed to the sink, what the sink and the buffer took in ends inside the
\* failed step, and Encode returns that first error; when no step
\* fails, Encode returns the error of the Flush, if any
C10_ErrorPropagation ==
    (enc.op = "encode" /\ enc.log # <<>>)
    => /\ \A i \in 1..Len(enc.log) :
             i > FirstFailure(enc.log, 1) => ~enc.log[i].done
       /\ DeliveredUpTo(enc, FirstFailure(enc.log, 1))
       /\ enc.ret = IF FirstFailure(enc.log, 1) <= Len(enc.log)
                    THEN enc.log[FirstFailure(enc.log, 1)].err
                    ELSE enc.ferr

\* a body read failed, the terminator was skipped, the Flush failed as
\* well, and Encode returned the read's error
C10_Witness ==
    /\ enc.op = "encode"
    /\ enc.val.k = "lenreader"
    /\ Len(enc.log) = 5
    /\ enc.log[4].err = "read"
    /\ ~enc.log[5].done
    /\ enc.ferr = "sink"
    /\ enc.ret = "read"

(***************************************************************************)
(* The streaming encoder against Any.MarshalRESP, checked under            *)
(* SpecEncoder.                                                            *)
(***************************************************************************)
\* v is taken by one of the cases before reflection, and is no LenReader
BeforeReflection(v) ==
    \/ v.k \in {"bytes", "string", "bool", "float32", "float64", "nil", "int", "error"}
    \/ v.k = "custom" /\ v.caps # {}

\* the same value as Any sees it: a type with the encoder's Marshal method
\* has the MarshalRESP method, returning the same bytes
AsAny(v) ==
    IF "marshal" \in v.caps THEN [v EXCEPT !.caps = (@ \ {"marshal"}) \cup {"resp"}] ELSE v

\* C11: an Encode that the sink does not fail writes the bytes, or returns
\* the error, that Any.MarshalRESP returns for the same value
C11_EncoderAgrees ==
    (/\ enc.op = "encode"
     /\ BeforeReflection(enc.val)
     /\ enc.e.err = "nil")
    => /\ enc.ret = Alone(AsAny(enc.val)).err
       /\ TakenIn(enc) = Alone(AsAny(enc.val)).out

(***************************************************************************)
(* BulkString.UnmarshalRESP into a destination used before.                *)
(***************************************************************************)
\* what B may hold before the call: nil, an empty slice, some bytes
Destinations == {NilBytes, Bytes(<<>>), Bytes(<<97>>)}

\* (&BulkString{B: old}).UnmarshalRESP(input)
UnmarshalingInto(i, old, r) ==
    /\ dec' = [kind |-> "BulkString", origin |-> i.origin, src |-> wire, input |-> i.input,
               old |-> old, dst |-> r.dst, err |-> r.err]
    /\ wire' = NoWire
    /\ UNCHANGED <<pool, call, enc>>

UnmarshalBulkStringInto ==
    /\ dec.kind = "none"
    /\ \E i \in Inputs, old \in Destinations :
          UnmarshalingInto(i, old, BulkString_UnmarshalRESP(old, i.input))

NextReuse ==
    \/ MarshalSimpleString
    \/ MarshalError
    \/ MarshalInt
    \/ MarshalBulkString
    \/ MarshalArrayHeader
    \/ UnmarshalBulkStringInto

SpecReuse == Init /\ [][NextReuse]_vars

\* C12: a BulkString's own encoding decodes without error into any
\* destination, which then holds the encoded payload and nothing else
C12_DecodeIntoUsed ==
    (/\ dec.kind = "BulkString"
     /\ dec.origin = "wire"
     /\ dec.src.kind = "BulkString")
    => dec.err = "nil" /\ dec.dst = dec.src.val

\* C13: UnmarshalRESP of a scalar codec ends normally on every input
C13_DecodeNeverPanics == dec.err # "panic"

====
